---- MODULE Spec2Model ----
(***************************************************************************)
(* LibreNMS MCP server: the invocation pipeline (middleware chain, tool    *)
(* body, gateway client) and the request-path construction of the tools.   *)
(***************************************************************************)
EXTENDS Integers, Sequences, FiniteSets, TLC

\* ------------------------------------------------------------------ bounds
MaxCeiling == 3
MaxTicks == 3
MaxCalls == 2
MaxLimiterCalls == 5
MaxIdLen == 3
MaxPayloadKeys == 2

SecondsPerMinute == 60

\* The clock is observed every half minute.
TickSeconds == SecondsPerMinute \div 2

\* The window lengths, in minutes, the configuration is drawn from.
WindowMinutes == {1}

Invocations == {"i1", "i2"}

\* --------------------------------------------------------------- variables
VARIABLES
  phase,         \* the process: imported, running, exit1
  LNMS_CONFIG,   \* the configuration read once at import time
  middleware,    \* mcp.middleware: the installed middlewares, in add order
  limiter,       \* the sliding-window limiter of the single key "global"
  now,           \* wall clock, in seconds
  env,           \* the environment: call budget, tools called, answers
  calls,         \* number of tool calls received so far
  pc,            \* per invocation: idle, chain, tool, sent, done, cancelled
  op,            \* per invocation: the tool called
  mwIndex,       \* per invocation: position in the middleware chain
  trace,         \* per invocation: the stages entered so far, in order
  httpCalls,     \* per invocation: HTTP requests issued to the upstream
  method,        \* per invocation: the HTTP method of the request issued
  events,        \* per invocation: what the tool body did, in order
  connOpen,      \* per invocation: the gateway client is open
  received,      \* per invocation: what the upstream answered
  results,       \* per invocation: the results returned to the caller
  log,           \* history of the limiter's decisions
  contended,     \* history: two invocations met at the limiter's last slot
  pathTool,      \* path construction: the tool whose path is built
  ident,         \* path construction: the caller-supplied identifier
  path,          \* path construction: the endpoint handed to the client
  callArgs,      \* request construction: the caller's arguments
  sent           \* request construction: what is handed to the client

vars == <<phase, LNMS_CONFIG, middleware, limiter, now, env, calls, pc, op,
          mwIndex, trace, httpCalls, method, events, connOpen, received,
          results, log,
          contended, pathTool, ident, path, callArgs, sent>>

pipelineVars == <<phase, LNMS_CONFIG, middleware, limiter, now, env, calls,
                  pc, op, mwIndex, trace, httpCalls, method, events,
                  connOpen, received, results, log, contended>>

pathVars == <<pathTool, ident, path, callArgs, sent>>

\* ----------------------------------------------------------------- catalog
\* The tools of the catalog the pipeline is exercised with.
Tools == {"device_get", "device_delete", "alert_acknowledge"}

\* One registration: @mcp.tool(tags=..., annotations={...}) and the verb of
\* the single client call in the body.
Tool(n, ro, d, idem, verb, t) ==
  [name |-> n, tags |-> t, readOnlyHint |-> ro, destructiveHint |-> d,
   idempotentHint |-> idem, verb |-> verb]

\* Every tool the server registers.
Catalog == {
  \* tools/alerts.py
  Tool("alerts_get", TRUE, FALSE, TRUE, "GET",
       {"alert", "global-read", "librenms", "read-only"}),
  Tool("alert_get_by_id", TRUE, FALSE, TRUE, "GET",
       {"alert", "global-read", "librenms", "read-only"}),
  Tool("alert_acknowledge", FALSE, FALSE, TRUE, "PUT",
       {"admin", "alert", "librenms"}),
  Tool("alert_unmute", FALSE, FALSE, TRUE, "PUT",
       {"admin", "alert", "librenms"}),
  Tool("alert_rules_list", TRUE, FALSE, TRUE, "GET",
       {"alert-rules", "global-read", "librenms", "read-only"}),
  Tool("alert_rule_get", TRUE, FALSE, TRUE, "GET",
       {"alert-rules", "global-read", "librenms", "read-only"}),
  Tool("alert_rule_add", FALSE, TRUE, FALSE, "POST",
       {"admin", "alert-rules", "librenms"}),
  Tool("alert_rule_edit", FALSE, TRUE, TRUE, "PUT",
       {"admin", "alert-rules", "librenms"}),
  Tool("alert_rule_delete", FALSE, TRUE, TRUE, "DELETE",
       {"admin", "alert-rules", "librenms"}),
  Tool("alert_templates_list", TRUE, FALSE, TRUE, "GET",
       {"alert-templates", "librenms", "read-only"}),
  Tool("alert_template_get", TRUE, FALSE, TRUE, "GET",
       {"alert-templates", "librenms", "read-only"}),
  Tool("alert_template_create", FALSE, FALSE, FALSE, "POST",
       {"alert-templates", "librenms"}),
  Tool("alert_template_edit", FALSE, TRUE, TRUE, "PUT",
       {"alert-templates", "librenms"}),
  Tool("alert_template_delete", FALSE, TRUE, TRUE, "DELETE",
       {"alert-templates", "librenms"}),
  \* tools/bills.py
  Tool("bills_list", TRUE, FALSE, TRUE, "GET",
       {"bills", "librenms", "read-only"}),
  Tool("bill_get", TRUE, FALSE, TRUE, "GET",
       {"bills", "librenms", "read-only"}),
  Tool("bill_graph", TRUE, FALSE, TRUE, "GET",
       {"bills", "librenms", "read-only"}),
  Tool("bill_graph_data", TRUE, FALSE, TRUE, "GET",
       {"bills", "librenms", "read-only"}),
  Tool("bill_history", TRUE, FALSE, TRUE, "GET",
       {"bills", "librenms", "read-only"}),
  Tool("bill_history_graph", TRUE, FALSE, TRUE, "GET",
       {"bills", "librenms", "read-only"}),
  Tool("bill_history_graph_data", TRUE, FALSE, TRUE, "GET",
       {"bills", "librenms", "read-only"}),
  Tool("bill_create_or_update", FALSE, TRUE, FALSE, "POST",
       {"admin", "bills", "librenms"}),
  Tool("bill_delete", FALSE, TRUE, TRUE, "DELETE",
       {"admin", "bills", "librenms"}),
  \* tools/devices.py
  Tool("devices_list", TRUE, FALSE, TRUE, "GET",
       {"devices", "librenms", "read-only"}),
  Tool("device_add", FALSE, TRUE, FALSE, "POST",
       {"admin", "devices", "librenms"}),
  Tool("device_get", TRUE, FALSE, TRUE, "GET",
       {"devices", "librenms", "read-only"}),
  Tool("device_delete", FALSE, TRUE, TRUE, "DELETE",
       {"admin", "devices", "librenms"}),
  Tool("device_update", FALSE, TRUE, TRUE, "PATCH",
       {"admin", "devices", "librenms"}),
  Tool("device_ports", TRUE, FALSE, TRUE, "GET",
       {"devices", "librenms", "read-only"}),
  Tool("device_ports_get", TRUE, FALSE, TRUE, "GET",
       {"devices", "librenms", "read-only"}),
  Tool("device_availability", TRUE, FALSE, TRUE, "GET",
       {"devices", "librenms", "read-only"}),
  Tool("device_outages", TRUE, FALSE, TRUE, "GET",
       {"devices", "librenms", "read-only"}),
  Tool("device_set_maintenance", FALSE, FALSE, TRUE, "POST",
       {"admin", "devices", "librenms"}),
  Tool("devicegroups_list", TRUE, FALSE, TRUE, "GET",
       {"device-groups", "global-read", "librenms", "read-only"}),
  Tool("devicegroup_add", FALSE, TRUE, FALSE, "POST",
       {"admin", "device-groups", "librenms"}),
  Tool("devicegroup_update", FALSE, TRUE, TRUE, "PATCH",
       {"admin", "device-groups", "librenms"}),
  Tool("devicegroup_delete", FALSE, TRUE, TRUE, "DELETE",
       {"admin", "device-groups", "librenms"}),
  Tool("devicegroup_devices", TRUE, FALSE, TRUE, "GET",
       {"device-groups", "global-read", "librenms", "read-only"}),
  Tool("devicegroup_set_maintenance", FALSE, TRUE, TRUE, "POST",
       {"admin", "device-groups", "librenms"}),
  Tool("devicegroup_add_devices", FALSE, TRUE, FALSE, "POST",
       {"admin", "device-groups", "librenms"}),
  Tool("devicegroup_remove_devices", FALSE, TRUE, FALSE, "DELETE",
       {"admin", "device-groups", "librenms"}),
  Tool("device_discover", FALSE, FALSE, FALSE, "GET",
       {"devices", "librenms"}),
  Tool("device_rename", FALSE, TRUE, TRUE, "PATCH",
       {"devices", "librenms"}),
  Tool("device_maintenance_status", TRUE, FALSE, TRUE, "GET",
       {"devices", "librenms", "read-only"}),
  Tool("device_vlans", TRUE, FALSE, TRUE, "GET",
       {"devices", "librenms", "read-only"}),
  Tool("device_links", TRUE, FALSE, TRUE, "GET",
       {"devices", "librenms", "read-only"}),
  Tool("device_eventlog_add", FALSE, FALSE, FALSE, "POST",
       {"devices", "librenms"}),
  \* tools/health.py
  Tool("health_list", TRUE, FALSE, TRUE, "GET",
       {"health", "librenms", "read-only"}),
  Tool("health_by_type", TRUE, FALSE, TRUE, "GET",
       {"health", "librenms", "read-only"}),
  Tool("health_sensor_get", TRUE, FALSE, TRUE, "GET",
       {"health", "librenms", "read-only"}),
  Tool("sensors_list", TRUE, FALSE, TRUE, "GET",
       {"librenms", "read-only", "sensors"}),
  \* tools/inventory.py
  Tool("inventory_device", TRUE, FALSE, TRUE, "GET",
       {"inventory", "librenms", "read-only"}),
  Tool("inventory_device_flat", TRUE, FALSE, TRUE, "GET",
       {"inventory", "librenms", "read-only"}),
  \* tools/locations.py
  Tool("locations_list", TRUE, FALSE, TRUE, "GET",
       {"global-read", "librenms", "locations", "read-only"}),
  Tool("location_add", FALSE, TRUE, FALSE, "POST",
       {"admin", "librenms", "locations"}),
  Tool("location_delete", FALSE, TRUE, TRUE, "DELETE",
       {"admin", "librenms", "locations"}),
  Tool("location_edit", FALSE, TRUE, TRUE, "PATCH",
       {"admin", "librenms", "locations"}),
  Tool("location_get", TRUE, FALSE, TRUE, "GET",
       {"admin", "librenms", "locations", "read-only"}),
  Tool("location_set_maintenance", FALSE, FALSE, TRUE, "POST",
       {"admin", "librenms", "locations"}),
  \* tools/logs.py
  Tool("logs_eventlog", TRUE, FALSE, TRUE, "GET",
       {"global-read", "librenms", "logs", "read-only"}),
  Tool("logs_syslog", TRUE, FALSE, TRUE, "GET",
       {"global-read", "librenms", "logs", "read-only"}),
  Tool("logs_alertlog", TRUE, FALSE, TRUE, "GET",
       {"global-read", "librenms", "logs", "read-only"}),
  Tool("logs_authlog", TRUE, FALSE, TRUE, "GET",
       {"global-read", "librenms", "logs", "read-only"}),
  Tool("logs_syslogsink", FALSE, FALSE, FALSE, "POST",
       {"admin", "librenms", "logs"}),
  \* tools/network.py
  Tool("arp_search", TRUE, FALSE, TRUE, "GET",
       {"arp", "global-read", "librenms", "read-only"}),
  Tool("bgp_sessions", TRUE, FALSE, TRUE, "GET",
       {"global-read", "librenms", "read-only", "routing"}),
  Tool("bgp_session_get", TRUE, FALSE, TRUE, "GET",
       {"global-read", "librenms", "read-only", "routing"}),
  Tool("bgp_session_edit", FALSE, TRUE, TRUE, "POST",
       {"admin", "librenms", "routing"}),
  Tool("routing_ip_addresses", TRUE, FALSE, TRUE, "GET",
       {"global-read", "librenms", "read-only", "routing"}),
  Tool("switching_vlans", TRUE, FALSE, TRUE, "GET",
       {"librenms", "read-only", "switching"}),
  Tool("switching_links", TRUE, FALSE, TRUE, "GET",
       {"librenms", "read-only", "switching"}),
  Tool("fdb_lookup", TRUE, FALSE, TRUE, "GET",
       {"fdb", "librenms", "read-only"}),
  Tool("ospf_list", TRUE, FALSE, TRUE, "GET",
       {"global-read", "librenms", "ospf", "read-only", "routing"}),
  Tool("ospf_ports", TRUE, FALSE, TRUE, "GET",
       {"global-read", "librenms", "ospf", "read-only", "routing"}),
  Tool("vrf_list", TRUE, FALSE, TRUE, "GET",
       {"librenms", "read-only", "routing", "vrf"}),
  \* tools/pollers.py
  Tool("poller_group_get", TRUE, FALSE, TRUE, "GET",
       {"admin", "librenms", "poller-groups", "read-only"}),
  \* tools/ports.py
  Tool("ports_list", TRUE, FALSE, TRUE, "GET",
       {"librenms", "ports", "read-only"}),
  Tool("ports_search", TRUE, FALSE, TRUE, "GET",
       {"librenms", "ports", "read-only"}),
  Tool("ports_search_field", TRUE, FALSE, TRUE, "GET",
       {"librenms", "ports", "read-only"}),
  Tool("ports_search_mac", TRUE, FALSE, TRUE, "GET",
       {"librenms", "ports", "read-only"}),
  Tool("port_get", TRUE, FALSE, TRUE, "GET",
       {"librenms", "ports", "read-only"}),
  Tool("port_ip_info", TRUE, FALSE, TRUE, "GET",
       {"librenms", "ports", "read-only"}),
  Tool("port_transceiver", TRUE, FALSE, TRUE, "GET",
       {"librenms", "ports", "read-only"}),
  Tool("port_description_get", TRUE, FALSE, TRUE, "GET",
       {"librenms", "ports", "read-only"}),
  Tool("port_description_update", FALSE, TRUE, TRUE, "PATCH",
       {"librenms", "ports"}),
  Tool("port_groups_list", TRUE, FALSE, TRUE, "GET",
       {"global-read", "librenms", "port-groups", "read-only"}),
  Tool("port_group_add", FALSE, TRUE, FALSE, "POST",
       {"admin", "librenms", "port-groups"}),
  Tool("port_group_list_ports", TRUE, FALSE, TRUE, "GET",
       {"global-read", "librenms", "port-groups", "read-only"}),
  Tool("port_group_assign", FALSE, FALSE, FALSE, "POST",
       {"admin", "librenms", "port-groups"}),
  Tool("port_group_remove", FALSE, FALSE, FALSE, "POST",
       {"admin", "librenms", "port-groups"}),
  \* tools/services.py
  Tool("services_list", TRUE, FALSE, TRUE, "GET",
       {"global-read", "librenms", "read-only", "services"}),
  Tool("services_for_device", TRUE, FALSE, TRUE, "GET",
       {"global-read", "librenms", "read-only", "services"}),
  Tool("service_add", FALSE, TRUE, FALSE, "POST",
       {"admin", "librenms", "services"}),
  Tool("service_edit", FALSE, TRUE, TRUE, "PATCH",
       {"admin", "librenms", "services"}),
  Tool("service_delete", FALSE, TRUE, TRUE, "DELETE",
       {"admin", "librenms", "services"}),
  \* tools/system.py
  Tool("system_info", TRUE, FALSE, TRUE, "GET",
       {"librenms", "read-only", "system"}),
  Tool("ping", TRUE, FALSE, TRUE, "GET",
       {"librenms", "read-only", "system"})
}

CatalogNames == {e.name : e \in Catalog}

Entry(o) == CHOOSE e \in Catalog : e.name = o

ReadOnlyHint_NotDestructive(o) == ~Entry(o).destructiveHint

ReadOnlyHint(o) == Entry(o).readOnlyHint

DestructiveHint(o) == Entry(o).destructiveHint

IdempotentHint(o) == Entry(o).idempotentHint

Tags_WithoutReadOnly(o) == Entry(o).tags \ {"read-only"}

Tags(o) == Entry(o).tags

HttpMethod(o) == Entry(o).verb

\* The descriptor the decorator registers: mutating is readOnlyHint inverted.
Descriptor_NotInverted(o) ==
  [name |-> o, tags |-> Tags(o), mutating |-> ReadOnlyHint(o),
   destructive |-> DestructiveHint(o), idempotent |-> IdempotentHint(o)]

Descriptor_MutatingIsDestructive(o) ==
  [name |-> o, tags |-> Tags(o), mutating |-> DestructiveHint(o),
   destructive |-> DestructiveHint(o), idempotent |-> IdempotentHint(o)]

Descriptor(o) ==
  [name |-> o, tags |-> Tags(o), mutating |-> ~ReadOnlyHint(o),
   destructive |-> DestructiveHint(o), idempotent |-> IdempotentHint(o)]

\* ------------------------------------------------------------ registration
\* The values LIBRENMS_URL and LIBRENMS_TOKEN are drawn from.
Urls == {"", "https://nms"}

Tokens == {"", "secret"}

\* The configurations main() lets the server run with.
Configs ==
  [librenms_url : Urls \ {""}, token : Tokens \ {""},
   read_only_mode : BOOLEAN, rate_limit_enabled : BOOLEAN,
   rate_limit_max_requests : 1..MaxCeiling,
   rate_limit_window_minutes : WindowMinutes]

\* The configurations LibreNMSConfig accepts: its fields carry no constraint.
EnvConfigs ==
  [librenms_url : Urls, token : Tokens,
   read_only_mode : BOOLEAN, rate_limit_enabled : BOOLEAN,
   rate_limit_max_requests : 0..MaxCeiling,
   rate_limit_window_minutes : {0} \cup WindowMinutes]

ConfigComplete_Any(cfg) == cfg.librenms_url # "" \/ cfg.token # ""

\* all([LNMS_CONFIG.librenms_url, LNMS_CONFIG.token])
ConfigComplete(cfg) == cfg.librenms_url # "" /\ cfg.token # ""

GateName == "ReadOnlyTagMiddleware"

LimiterName == "SlidingWindowRateLimitingMiddleware"

add_middleware(chain, cond, mw) == IF cond THEN Append(chain, mw) ELSE chain

InstalledMiddleware_LimiterFirst(cfg) ==
  add_middleware(
    add_middleware(<<>>, cfg.rate_limit_enabled, LimiterName),
    cfg.read_only_mode, GateName)

InstalledMiddleware_NoGate(cfg) ==
  add_middleware(<<>>, cfg.rate_limit_enabled, LimiterName)

InstalledMiddleware_LimiterAlways(cfg) ==
  add_middleware(
    add_middleware(<<>>, cfg.read_only_mode, GateName),
    TRUE, LimiterName)

InstalledMiddleware(cfg) ==
  add_middleware(
    add_middleware(<<>>, cfg.read_only_mode, GateName),
    cfg.rate_limit_enabled, LimiterName)

LimiterArgs_Swapped(cfg) ==
  [max_requests |-> cfg.rate_limit_window_minutes,
   window_minutes |-> cfg.rate_limit_max_requests]

LimiterArgs_OffByOne(cfg) ==
  [max_requests |-> cfg.rate_limit_max_requests + 1,
   window_minutes |-> cfg.rate_limit_window_minutes]

LimiterArgs_WindowDropped(cfg) ==
  [max_requests |-> cfg.rate_limit_max_requests,
   window_minutes |-> 0]

LimiterArgs(cfg) ==
  [max_requests |-> cfg.rate_limit_max_requests,
   window_minutes |-> cfg.rate_limit_window_minutes]

\* SlidingWindowRateLimitingMiddleware(max_requests, window_minutes)
NewLimiter(args) ==
  [max_requests |-> args.max_requests,
   window_seconds |-> args.window_minutes * SecondsPerMinute,
   requests |-> <<>>]

\* ----------------------------------------------------------------- limiter
Evict_Inclusive(reqs, cutoff) == SelectSeq(reqs, LAMBDA t : t > cutoff)

RECURSIVE Evict(_, _)
\* while self.requests and self.requests[0] < cutoff: popleft()
Evict(reqs, cutoff) ==
  IF reqs # <<>> /\ Head(reqs) < cutoff THEN Evict(Tail(reqs), cutoff) ELSE reqs

BelowCeiling(count, ceiling) == count < ceiling

is_allowed_RecordAlways(lim, t) ==
  LET kept == Evict(lim.requests, t - lim.window_seconds)
      ok == BelowCeiling(Len(kept), lim.max_requests)
  IN [allowed |-> ok,
      limiter |-> [lim EXCEPT !.requests = Append(kept, t)]]

\* One attempt at time t: evict, compare, record. Atomic under the lock.
is_allowed(lim, t) ==
  LET kept == Evict(lim.requests, t - lim.window_seconds)
      ok == BelowCeiling(Len(kept), lim.max_requests)
  IN [allowed |-> ok,
      limiter |->
        [lim EXCEPT !.requests = IF ok THEN Append(kept, t) ELSE kept]]

\* A gate that decides by the tool's tags: deny a tool that does not carry
\* the tag "read-only" while read_only_mode is on.
TagGateCheck(desc, cfg) ==
  IF "read-only" \notin desc.tags /\ cfg.read_only_mode THEN "Deny"
  ELSE "Allow"

\* -------------------------------------------------------------------- gate
GateCheck(desc, cfg) ==
  IF desc.mutating /\ cfg.read_only_mode THEN "Deny" ELSE "Allow"

\* ----------------------------------------------------------------- results
NoMessage == <<>>

AccessDenied == <<"tool is disabled in read-only mode">>

RateLimitExceeded == <<"rate limit exceeded">>

ErrorRecord(msg) == [kind |-> "error", message |-> msg]

Payload(body) == [kind |-> "payload", message |-> body]

Escaped(msg) == [kind |-> "raised", message |-> msg]

\* ---------------------------------------------------------------- upstream
\* What the upstream (or the network) answers to one request.
Responses ==
  {[type |-> "response", status |-> 200, body |-> "json"],
   [type |-> "response", status |-> 200, body |-> ""],
   [type |-> "response", status |-> 200, body |-> "<html>"],
   [type |-> "response", status |-> 404, body |-> "not found"],
   [type |-> "response", status |-> 500, body |-> ""],
   [type |-> "transport", status |-> 0, body |-> ""],
   [type |-> "timeout", status |-> 0, body |-> ""]}

\* A body the client can decode as JSON: not the empty one, not markup.
Decodable(body) == body \notin {"", "<html>"}

NoResponse == [type |-> "none", status |-> 0, body |-> ""]

Is2xx(status) == status >= 200 /\ status < 300

StatusCode(status) ==
  CASE status = 200 -> "200" [] status = 404 -> "404" [] status = 500 -> "500"
    [] OTHER -> "0"

StatusLine(status) ==
  CASE status = 404 -> "Not Found" [] status = 500 -> "Internal Server Error"
    [] OTHER -> "OK"

\* The gateway client's request: the decoded body, or a raised exception
\* whose text carries the status code and the diagnostic text.
ClientRequest(resp) ==
  CASE resp.type = "timeout" -> [raised |-> TRUE, value |-> <<"Timeout">>]
    [] resp.type = "transport" ->
         [raised |-> TRUE, value |-> <<"connection failed">>]
    [] resp.type = "response" /\ Is2xx(resp.status) ->
         [raised |-> FALSE,
          value |-> IF Decodable(resp.body) THEN <<resp.body>>
                    ELSE NoMessage]
    [] OTHER ->
         [raised |-> TRUE,
          value |-> <<StatusCode(resp.status),
                      IF resp.body = "" THEN StatusLine(resp.status)
                      ELSE resp.body>>]

\* --------------------------------------------------------------- tool body
\* str(e): the text of the exception.
str(e) == e

ToolReturn_Reraise(outcome) ==
  IF outcome.raised THEN Escaped(str(outcome.value))
  ELSE Payload(outcome.value)

ToolReturn_DropText(outcome) ==
  IF outcome.raised THEN ErrorRecord(<<"request failed">>)
  ELSE Payload(outcome.value)

ToolReturn_EmptyIsError(outcome) ==
  IF outcome.raised THEN ErrorRecord(str(outcome.value))
  ELSE IF outcome.value = NoMessage THEN ErrorRecord(<<"empty response">>)
  ELSE Payload(outcome.value)

\* return await client.<verb>(...)  /  except Exception as e: return
\* {"error": str(e)}
ToolReturn(outcome) ==
  IF outcome.raised THEN ErrorRecord(str(outcome.value))
  ELSE Payload(outcome.value)

BodyEvents_NoErrorNote(outcome) == <<"close", "return">>

\* The client closes on leaving the async with block; on an exception the
\* except clause awaits ctx.error once, then returns; on success the body
\* returns without a notification.
BodyEvents(outcome) ==
  IF outcome.raised THEN <<"close", "error", "return">>
  ELSE <<"close", "return">>

AfterRequest_AwaitAgain(outcome) == "sent"

AfterRequest_RetryOnFailure(outcome) ==
  IF outcome.raised THEN "tool" ELSE "done"

\* One awaited client call inside try; the except clause returns: no loop.
AfterRequest(outcome) == "done"

ClientOf_Shared(i) == CHOOSE j \in Invocations : TRUE

\* LibreNMSClient(config) is constructed inside the body: every invocation
\* has a client of its own, which holds its connection and its response.
ClientOf(i) == i

ConnAfterExit_LeakOnCancel(exit) == exit = "cancelled"

\* async with LibreNMSClient(config) as client: the client is closed on
\* every way out of the block (return, exception, cancellation).
ConnAfterExit(exit) == FALSE

\* ------------------------------------------------------------------- state
Idle == [i \in Invocations |-> "idle"]

\* A stub upstream that answers every request with success.
StubSuccess == {r \in Responses : r.type = "response" /\ r.body = "json"}

\* Import of server.py: the configuration, the middlewares, the limiter.
Startup(cfg) ==
  /\ phase = "imported"
  /\ LNMS_CONFIG = cfg
  /\ middleware = InstalledMiddleware(cfg)
  /\ limiter = NewLimiter(LimiterArgs(cfg))

Fresh ==
  /\ now = 0
  /\ calls = 0
  /\ pc = Idle
  /\ op = [i \in Invocations |-> "device_get"]
  /\ mwIndex = [i \in Invocations |-> 1]
  /\ trace = [i \in Invocations |-> <<>>]
  /\ httpCalls = [i \in Invocations |-> 0]
  /\ method = [i \in Invocations |-> "none"]
  /\ events = [i \in Invocations |-> <<>>]
  /\ connOpen = [i \in Invocations |-> FALSE]
  /\ received = [i \in Invocations |-> NoResponse]
  /\ results = [i \in Invocations |-> <<>>]
  /\ log = <<>>
  /\ contended = FALSE

Unsent == [kind |-> "unsent"]

NoPath ==
  /\ pathTool = "none"
  /\ ident = <<>>
  /\ path = <<>>
  /\ callArgs = <<>>
  /\ sent = Unsent

\* Any configuration, any answer of the upstream.
Init ==
  /\ \E cfg \in Configs : Startup(cfg)
  /\ env = [budget |-> MaxCalls, tools |-> Tools, responses |-> Responses]
  /\ Fresh
  /\ NoPath

\* Rate limiting enabled, a longer run of calls of one tool, a stub upstream.
InitLimiter ==
  /\ \E cfg \in {c \in Configs : c.rate_limit_enabled} : Startup(cfg)
  /\ env = [budget |-> MaxLimiterCalls, tools |-> {"device_get"},
           responses |-> StubSuccess]
  /\ Fresh
  /\ NoPath

\* Whatever the environment holds, one call, a stub upstream.
InitStartup ==
  /\ \E cfg \in EnvConfigs : Startup(cfg)
  /\ env = [budget |-> 1, tools |-> Tools, responses |-> StubSuccess]
  /\ Fresh
  /\ NoPath

\* Any configuration, one call of any tool of the catalog, a stub upstream.
InitCatalog ==
  /\ \E cfg \in Configs : Startup(cfg)
  /\ env = [budget |-> 1, tools |-> CatalogNames, responses |-> StubSuccess]
  /\ Fresh
  /\ NoPath

\* Either policy on or off, the lowest ceiling (so that the limiter denies
\* within the budget); the ways a gateway call can end: an answer, a
\* transport failure, the timeout.
InitLive ==
  /\ \E cfg \in {c \in Configs : c.rate_limit_max_requests = 1} : Startup(cfg)
  /\ env = [budget |-> MaxCalls, tools |-> Tools,
            responses |-> {r \in Responses :
                             r.type # "response" \/ r.body = "json"}]
  /\ Fresh
  /\ NoPath

main_OverridesConfig ==
  /\ phase = "imported"
  /\ phase' = IF ConfigComplete(LNMS_CONFIG) THEN "running" ELSE "exit1"
  /\ LNMS_CONFIG' = [LNMS_CONFIG EXCEPT !.read_only_mode = FALSE]
  /\ UNCHANGED <<middleware, limiter, now, env, calls, pc, op, mwIndex, trace,
                 httpCalls, method, connOpen, received, results, log,
                 contended>>
  /\ UNCHANGED events
  /\ UNCHANGED pathVars

\* ----------------------------------------------------------------- actions
\* main(): refuse to serve without URL and token, else mcp.run().
main ==
  /\ phase = "imported"
  /\ phase' = IF ConfigComplete(LNMS_CONFIG) THEN "running" ELSE "exit1"
  /\ UNCHANGED <<LNMS_CONFIG, middleware, limiter, now, env, calls, pc, op,
                 mwIndex, trace, httpCalls, method, connOpen, received, results,
                 log, contended>>
  /\ UNCHANGED events
  /\ UNCHANGED pathVars

\* The clock advances.
Tick ==
  /\ phase = "running"
  /\ now < MaxTicks * TickSeconds
  /\ now' = now + TickSeconds
  /\ UNCHANGED <<phase, LNMS_CONFIG, middleware, limiter, env, calls, pc, op,
                 mwIndex, trace, httpCalls, method, connOpen, received,
                 results, log, contended>>
  /\ UNCHANGED events
  /\ UNCHANGED pathVars

\* The protocol layer delivers a tool call to the middleware chain.
CallTool(i, o) ==
  /\ phase = "running"
  /\ pc[i] = "idle"
  /\ calls < env.budget
  /\ calls' = calls + 1
  /\ pc' = [pc EXCEPT ![i] = "chain"]
  /\ op' = [op EXCEPT ![i] = o]
  /\ UNCHANGED <<phase, LNMS_CONFIG, middleware, limiter, now, env, mwIndex,
                 trace, httpCalls, method, connOpen, received, results, log,
                 contended>>
  /\ UNCHANGED events
  /\ UNCHANGED pathVars

AtMiddleware(i, mw) ==
  /\ pc[i] = "chain"
  /\ mwIndex[i] <= Len(middleware)
  /\ middleware[mwIndex[i]] = mw

\* ReadOnlyTagMiddleware: deny, or call_next.
ReadOnlyGate(i) ==
  /\ AtMiddleware(i, GateName)
  /\ trace' = [trace EXCEPT ![i] = Append(@, "gate")]
  /\ IF GateCheck(Descriptor(op[i]), LNMS_CONFIG) = "Deny"
     THEN /\ results' = [results EXCEPT
                           ![i] = Append(@, ErrorRecord(AccessDenied))]
          /\ pc' = [pc EXCEPT ![i] = "done"]
          /\ UNCHANGED mwIndex
     ELSE /\ mwIndex' = [mwIndex EXCEPT ![i] = @ + 1]
          /\ UNCHANGED <<results, pc>>
  /\ UNCHANGED <<phase, LNMS_CONFIG, middleware, limiter, now, env, calls, op,
                 httpCalls, method, connOpen, received, log, contended>>
  /\ UNCHANGED events
  /\ UNCHANGED pathVars

\* SlidingWindowRateLimitingMiddleware: deny, or record now and call_next.
RateLimiter(i) ==
  /\ AtMiddleware(i, LimiterName)
  /\ LET r == is_allowed(limiter, now)
         lastSlot == Len(r.limiter.requests) = limiter.max_requests
         others == \E j \in Invocations \ {i} : AtMiddleware(j, LimiterName)
     IN /\ limiter' = r.limiter
        /\ log' = Append(log, [time |-> now, allowed |-> r.allowed])
        /\ contended' = (contended \/ (r.allowed /\ lastSlot /\ others))
        /\ trace' = [trace EXCEPT ![i] = Append(@, "limiter")]
        /\ IF r.allowed
           THEN /\ mwIndex' = [mwIndex EXCEPT ![i] = @ + 1]
                /\ UNCHANGED <<results, pc>>
           ELSE /\ results' = [results EXCEPT
                        ![i] = Append(@, ErrorRecord(RateLimitExceeded))]
                /\ pc' = [pc EXCEPT ![i] = "done"]
                /\ UNCHANGED mwIndex
  /\ UNCHANGED <<phase, LNMS_CONFIG, middleware, now, env, calls, op,
                 httpCalls, method, connOpen, received>>
  /\ UNCHANGED events
  /\ UNCHANGED pathVars

\* The chain is exhausted: the tool body starts (await ctx.info(...)).
ToolStart(i) ==
  /\ pc[i] = "chain"
  /\ mwIndex[i] > Len(middleware)
  /\ pc' = [pc EXCEPT ![i] = "tool"]
  /\ trace' = [trace EXCEPT ![i] = Append(@, "tool")]
  /\ events' = [events EXCEPT ![i] = Append(@, "info")]
  /\ UNCHANGED <<phase, LNMS_CONFIG, middleware, limiter, now, env, calls, op,
                 mwIndex, httpCalls, method, connOpen, received, results, log,
                 contended>>
  /\ UNCHANGED pathVars

\* async with LibreNMSClient(config) as client: await client.<verb>(...)
ClientSend(i) ==
  /\ pc[i] = "tool"
  /\ pc' = [pc EXCEPT ![i] = "sent"]
  /\ connOpen' = [connOpen EXCEPT ![ClientOf(i)] = TRUE]
  /\ httpCalls' = [httpCalls EXCEPT ![i] = @ + 1]
  /\ method' = [method EXCEPT ![i] = HttpMethod(op[i])]
  /\ events' = [events EXCEPT ![i] = Append(@, "open")]
  /\ trace' = [trace EXCEPT ![i] = Append(@, "gateway")]
  /\ UNCHANGED <<phase, LNMS_CONFIG, middleware, limiter, now, env, calls, op,
                 mwIndex, received, results, log, contended>>
  /\ UNCHANGED pathVars

\* The request ends; the client closes; the body returns or catches.
ClientReceive(i, resp) ==
  /\ pc[i] = "sent"
  /\ received' = [received EXCEPT ![ClientOf(i)] = resp]
  /\ LET outcome == ClientRequest(resp)
         exit == IF outcome.raised THEN "exception" ELSE "return"
     IN /\ connOpen' = [connOpen EXCEPT ![ClientOf(i)] = ConnAfterExit(exit)]
        /\ pc' = [pc EXCEPT ![i] = AfterRequest(outcome)]
        /\ results' = IF AfterRequest(outcome) = "done"
                      THEN [results EXCEPT
                              ![i] = Append(@, ToolReturn(outcome))]
                      ELSE results
        /\ events' = IF AfterRequest(outcome) = "done"
                     THEN [events EXCEPT ![i] = @ \o BodyEvents(outcome)]
                     ELSE events
  /\ UNCHANGED <<phase, LNMS_CONFIG, middleware, limiter, now, env, calls, op,
                 mwIndex, trace, httpCalls, method, log, contended>>
  /\ UNCHANGED pathVars

\* The caller cancels an invocation in flight: CancelledError is raised at
\* the await the invocation is suspended in and passes `except Exception`.
Cancel(i) ==
  /\ pc[i] \in {"chain", "tool", "sent"}
  /\ pc' = [pc EXCEPT ![i] = "cancelled"]
  /\ connOpen' = [connOpen EXCEPT
                    ![ClientOf(i)] =
                      IF @ THEN ConnAfterExit("cancelled") ELSE FALSE]
  /\ UNCHANGED <<phase, LNMS_CONFIG, middleware, limiter, now, env, calls, op,
                 mwIndex, trace, httpCalls, method, received, results, log,
                 contended>>
  /\ UNCHANGED events
  /\ UNCHANGED pathVars

\* The protocol layer hands the result to the caller; the slot is free again.
Return(i) ==
  /\ pc[i] \in {"done", "cancelled"}
  /\ pc' = [pc EXCEPT ![i] = "idle"]
  /\ op' = [op EXCEPT ![i] = "device_get"]
  /\ mwIndex' = [mwIndex EXCEPT ![i] = 1]
  /\ trace' = [trace EXCEPT ![i] = <<>>]
  /\ httpCalls' = [httpCalls EXCEPT ![i] = 0]
  /\ method' = [method EXCEPT ![i] = "none"]
  /\ events' = [events EXCEPT ![i] = <<>>]
  /\ received' = [received EXCEPT ![i] = NoResponse]
  /\ results' = [results EXCEPT ![i] = <<>>]
  /\ UNCHANGED <<phase, LNMS_CONFIG, middleware, limiter, now, env, calls,
                 connOpen, log, contended>>
  /\ UNCHANGED pathVars

Next ==
  \/ main
  \/ Tick
  \/ \E i \in Invocations, o \in env.tools : CallTool(i, o)
  \/ \E i \in Invocations : ReadOnlyGate(i)
  \/ \E i \in Invocations : RateLimiter(i)
  \/ \E i \in Invocations : ToolStart(i)
  \/ \E i \in Invocations : ClientSend(i)
  \/ \E i \in Invocations, resp \in env.responses : ClientReceive(i, resp)
  \/ \E i \in Invocations : Cancel(i)
  \/ \E i \in Invocations : Return(i)

Spec == Init /\ [][Next]_vars

SpecLimiter == InitLimiter /\ [][Next]_vars

SpecStartup == InitStartup /\ [][Next]_vars

SpecCatalog == InitCatalog /\ [][Next]_vars

\* The steps of an invocation that are always taken once enabled: the gate
\* and the limiter do not block, the body starts and sends its request, and
\* the client's request ends (with a response, a failure or its timeout).
Progress(i) ==
  /\ WF_vars(ReadOnlyGate(i))
  /\ WF_vars(RateLimiter(i))
  /\ WF_vars(ToolStart(i))
  /\ WF_vars(ClientSend(i))
  /\ WF_vars(\E resp \in env.responses : ClientReceive(i, resp))

SpecLive ==
  InitLive /\ [][Next]_vars /\ \A i \in Invocations : Progress(i)

\* ------------------------------------------------------- path construction
\* The characters identifiers are drawn from: a letter and reserved ones.
Chars == {"a", "/", " ", "?", "#", "%"}

Identifiers == UNION {[1..n -> Chars] : n \in 0..MaxIdLen}

\* Letters, digits and "_.-~" are never quoted.
AlwaysSafe == {"a"}

\* "%XX": the character's code in two upper-case hexadecimal digits.
PercentEncode(c) ==
  CASE c = "/" -> <<"%", "2", "F">>
    [] c = " " -> <<"%", "2", "0">>
    [] c = "?" -> <<"%", "3", "F">>
    [] c = "#" -> <<"%", "2", "3">>
    [] c = "%" -> <<"%", "2", "5">>
    [] OTHER -> <<c>>

RECURSIVE quote(_, _)
\* urllib.parse.quote(string, safe)
quote(string, safe) ==
  IF string = <<>> THEN <<>>
  ELSE (IF Head(string) \in AlwaysSafe \cup safe THEN <<Head(string)>>
        ELSE PercentEncode(Head(string))) \o quote(Tail(string), safe)

\* The tools whose endpoint holds one caller-supplied identifier.
PathTools ==
  {"device_get", "devicegroup_delete", "ports_search", "location_delete",
   "location_get"}

\* The endpoint each tool hands to the client, built as its f-string does.
Endpoint(tool, id) ==
  CASE tool = "device_get" -> <<"devices", "/">> \o id
    [] tool = "devicegroup_delete" -> <<"devicegroups", "/">> \o id
    [] tool = "ports_search" -> <<"ports", "/", "search", "/">> \o id
    [] tool = "location_delete" -> <<"locations", "/">> \o quote(id, {})
    [] tool = "location_get" -> <<"location", "/">> \o quote(id, {})

\* The position, among the template's segments, of the identifier.
IdentSegment(tool) == IF tool = "ports_search" THEN 3 ELSE 2

DefaultConfig ==
  [librenms_url |-> "https://nms", token |-> "secret",
   read_only_mode |-> FALSE, rate_limit_enabled |-> FALSE,
   rate_limit_max_requests |-> 1, rate_limit_window_minutes |-> 1]

InitPath ==
  /\ Startup(DefaultConfig)
  /\ env = [budget |-> 0, tools |-> {}, responses |-> Responses]
  /\ Fresh
  /\ pathTool \in PathTools
  /\ ident \in Identifiers
  /\ path = <<>>
  /\ callArgs = <<>>
  /\ sent = Unsent

\* The tool body evaluates the f-string of its endpoint.
BuildPath ==
  /\ path = <<>>
  /\ path' = Endpoint(pathTool, ident)
  /\ UNCHANGED <<pathTool, ident, callArgs, sent>>
  /\ UNCHANGED pipelineVars

NextPath == BuildPath

SpecPath == InitPath /\ [][NextPath]_vars

\* Reading a path back: its segments, and a segment's percent-decoding.
IndexOfSlash(p) ==
  CHOOSE k \in 1..Len(p) : p[k] = "/" /\ \A j \in 1..(k - 1) : p[j] # "/"

RECURSIVE Segments(_)
Segments(p) ==
  IF \A k \in 1..Len(p) : p[k] # "/" THEN <<p>>
  ELSE LET k == IndexOfSlash(p)
       IN <<SubSeq(p, 1, k - 1)>> \o Segments(SubSeq(p, k + 1, Len(p)))

HexPair(a, b) ==
  CASE a = "2" /\ b = "F" -> "/"
    [] a = "2" /\ b = "0" -> " "
    [] a = "3" /\ b = "F" -> "?"
    [] a = "2" /\ b = "3" -> "#"
    [] a = "2" /\ b = "5" -> "%"
    [] OTHER -> "none"

RECURSIVE unquote(_)
unquote(s) ==
  IF s = <<>> THEN <<>>
  ELSE IF Head(s) = "%" /\ Len(s) >= 3 /\ HexPair(s[2], s[3]) # "none"
       THEN <<HexPair(s[2], s[3])>> \o unquote(SubSeq(s, 4, Len(s)))
       ELSE <<Head(s)>> \o unquote(Tail(s))

\* ---------------------------------------------------- request construction
\* Python's None: the value of an optional parameter the caller left out.
None == "None"

\* The values a filter is given: left out, a falsy one, an ordinary one.
FilterValues == {None, "0", "a"}

QueryTools == {"logs_eventlog", "services_list", "devices_list"}

\* The optional filter parameters of a tool (for devices_list: the keys of
\* the caller's query dict).
Filters(tool) ==
  CASE tool = "logs_eventlog" ->
         {"start", "limit", "from_ts", "to_ts", "sortorder"}
    [] tool = "services_list" -> {"state", "service_type"}
    [] tool = "devices_list" -> {"type", "query"}

\* params["from"] = from_ts, params["to"] = to_ts, params["type"] =
\* service_type; every other filter goes under its own name.
ApiName(tool, p) ==
  CASE p = "from_ts" -> "from"
    [] p = "to_ts" -> "to"
    [] p = "service_type" -> "type"
    [] OTHER -> p

Supplied_Truthy(v) == v \notin {None, "0", ""}

\* if <filter> is not None:
Supplied(v) == v # None

\* The params argument of client.get: the dict built filter by filter and
\* `params if params else None`; devices_list hands the caller's dict on.
BuildParams(tool, a) ==
  IF tool = "devices_list"
  THEN [isNone |-> FALSE, items |-> {<<p, a[p]>> : p \in DOMAIN a}]
  ELSE LET items == {<<ApiName(tool, p), a[p]>> :
                       p \in {q \in DOMAIN a : Supplied(a[q])}}
       IN [isNone |-> items = {}, items |-> items]

\* The gateway client's query string: no key whose value is absent.
QueryString(params) ==
  IF params.isNone THEN {} ELSE {kv \in params.items : kv[2] # None}

\* The keys and values of a device_update payload.
PayloadKeys == {"notes", "type", "ignore"}

PayloadValues == {"0", "a"}

\* A dict: its items in insertion order, the keys all different.
Payloads ==
  {p \in UNION {[1..n -> PayloadKeys \X PayloadValues] :
                  n \in 0..MaxPayloadKeys} :
     \A m, n \in DOMAIN p : m # n => p[m][1] # p[n][1]}

UpdateBody_ValuesReversed(payload) ==
  LET fields == [k \in DOMAIN payload |-> payload[k][1]]
      values == [k \in DOMAIN payload |->
                   payload[Len(payload) + 1 - k][2]]
  IN IF Len(fields) = 1
     THEN [field |-> fields[1], data |-> values[1]]
     ELSE [field |-> fields, data |-> values]

\* fields = list(payload.keys()); values = list(payload.values()); one key:
\* the scalars, otherwise the two lists.
UpdateBody(payload) ==
  LET fields == [k \in DOMAIN payload |-> payload[k][1]]
      values == [k \in DOMAIN payload |-> payload[k][2]]
  IN IF Len(fields) = 1
     THEN [field |-> fields[1], data |-> values[1]]
     ELSE [field |-> fields, data |-> values]

InitRequest ==
  /\ Startup(DefaultConfig)
  /\ env = [budget |-> 0, tools |-> {}, responses |-> Responses]
  /\ Fresh
  /\ ident = <<>>
  /\ path = <<>>
  /\ sent = Unsent
  /\ \/ /\ pathTool \in QueryTools
        /\ callArgs \in [Filters(pathTool) -> FilterValues]
     \/ /\ pathTool = "device_update"
        /\ callArgs \in Payloads

\* client.get(path, params=...) of a tool with optional filters.
BuildQuery ==
  /\ sent = Unsent
  /\ pathTool \in QueryTools
  /\ LET params == BuildParams(pathTool, callArgs)
     IN sent' = [kind |-> "get", params |-> params,
                 query |-> QueryString(params)]
  /\ UNCHANGED <<pathTool, ident, path, callArgs>>
  /\ UNCHANGED pipelineVars

\* client.patch(f"devices/{hostname}", data=api_payload) of device_update.
BuildUpdate ==
  /\ sent = Unsent
  /\ pathTool = "device_update"
  /\ sent' = [kind |-> "patch", data |-> UpdateBody(callArgs)]
  /\ UNCHANGED <<pathTool, ident, path, callArgs>>
  /\ UNCHANGED pipelineVars

NextRequest == BuildQuery \/ BuildUpdate

SpecRequest == InitRequest /\ [][NextRequest]_vars

\* ------------------------------------------------------------------ claims
Range(f) == {f[k] : k \in DOMAIN f}

Before(t, a, b) ==
  \E m, n \in DOMAIN t : m < n /\ t[m] = a /\ t[n] = b

BothPolicies ==
  LNMS_CONFIG.read_only_mode /\ LNMS_CONFIG.rate_limit_enabled

PolicyDenied(i) == pc[i] = "done" /\ results[i] = <<ErrorRecord(AccessDenied)>>

RateLimited(i) ==
  pc[i] = "done" /\ results[i] = <<ErrorRecord(RateLimitExceeded)>>

\* C1: a tool declared readOnlyHint = false that is called while
\* read_only_mode is true never enters its body, issues no HTTP request, and
\* ends with the read-only gate's rejection.
C1_MutatingDeniedInReadOnlyMode ==
  \A i \in Invocations :
    (pc[i] # "idle" /\ ~ReadOnlyHint(op[i]) /\ LNMS_CONFIG.read_only_mode) =>
      /\ httpCalls[i] = 0
      /\ pc[i] \in {"chain", "done", "cancelled"}
      /\ "tool" \notin Range(trace[i])
      /\ pc[i] = "done" => PolicyDenied(i)

C1_Witness ==
  \E i \in Invocations :
    /\ op[i] = "device_delete"
    /\ LNMS_CONFIG.read_only_mode
    /\ PolicyDenied(i)
    /\ trace[i] = <<"gate">>
    /\ httpCalls[i] = 0

\* C2: a tool declared readOnlyHint = true is never rejected by the
\* read-only gate, with read_only_mode true or false: once the gate has seen
\* it, it goes on down the chain.
C2_ReadOnlyToolNeverDenied ==
  \A i \in Invocations :
    (pc[i] # "idle" /\ ReadOnlyHint(op[i])) =>
      /\ ~PolicyDenied(i)
      /\ "gate" \in Range(trace[i]) => mwIndex[i] > 1

C2_Witness ==
  \E i \in Invocations :
    /\ ReadOnlyHint(op[i])
    /\ LNMS_CONFIG.read_only_mode
    /\ "gate" \in Range(trace[i])
    /\ pc[i] = "done"
    /\ results[i] = <<Payload(<<"json">>)>>

\* C3: with max_requests = 3 and window_minutes = 1, from an empty window,
\* the first three attempts are allowed, a fourth attempt no later than one
\* window after the first is denied, and an attempt later than one window
\* after every earlier admission is allowed.
C3_Config ==
  /\ LNMS_CONFIG.rate_limit_enabled
  /\ LNMS_CONFIG.rate_limit_max_requests = 3
  /\ LNMS_CONFIG.rate_limit_window_minutes = 1

C3_ThreeAllowedFourthDeniedThenAllowed ==
  C3_Config =>
    \A k \in DOMAIN log :
      /\ k <= 3 => log[k].allowed
      /\ (k = 4 /\ log[4].time - log[1].time <= SecondsPerMinute)
           => ~log[4].allowed
      /\ (\A j \in 1..(k - 1) :
            log[j].allowed => log[k].time - log[j].time > SecondsPerMinute)
           => log[k].allowed

C3_Witness ==
  /\ C3_Config
  /\ Len(log) = 5
  /\ log[1].allowed /\ log[2].allowed /\ log[3].allowed
  /\ ~log[4].allowed
  /\ log[4].time - log[1].time <= SecondsPerMinute
  /\ log[5].time - log[3].time > SecondsPerMinute
  /\ log[5].allowed

\* C4: of the attempts made at the instant of the first one, against the
\* empty window, exactly the first max_requests are allowed and every
\* further one is denied, however the invocations interleave; the window
\* never holds more than max_requests timestamps.
C4_ExactlyCeilingAdmitted ==
  /\ \A k \in DOMAIN log :
       log[k].time = log[1].time =>
         (log[k].allowed <=> k <= LNMS_CONFIG.rate_limit_max_requests)
  /\ LNMS_CONFIG.rate_limit_enabled =>
       Len(limiter.requests) <= LNMS_CONFIG.rate_limit_max_requests

C4_Witness ==
  /\ contended
  /\ Len(log) > LNMS_CONFIG.rate_limit_max_requests
  /\ log[Len(log)].time = log[1].time
  /\ now = log[1].time
  /\ ~log[Len(log)].allowed
  /\ \E i, j \in Invocations :
       /\ RateLimited(i)
       /\ pc[j] \in {"tool", "sent"}
       /\ "limiter" \in Range(trace[j])

StageOrder == <<"gate", "limiter", "tool", "gateway">>

C7_ExactlyOneUniformResult ==
  \A i \in Invocations :
    /\ pc[i] = "done" =>
         /\ Len(results[i]) = 1
         /\ results[i][1].kind \in {"payload", "error"}
    /\ pc[i] # "done" => results[i] = <<>>

C7_Witness ==
  \E i, j \in Invocations :
    /\ i # j
    /\ pc[i] = "done" /\ received[i].type = "timeout"
    /\ results[i] = <<ErrorRecord(<<"Timeout">>)>>
    /\ pc[j] = "done" /\ received[j] = NoResponse
    /\ Len(results[j]) = 1

GatewayFailed(j) ==
  /\ pc[j] = "done"
  /\ "gateway" \in Range(trace[j])
  /\ ~(received[j].type = "response" /\ Is2xx(received[j].status))

\* C8: the result of an invocation rejected by the gate or by the limiter is
\* an error record returned as a value, of the same shape as the result of
\* an invocation whose gateway call failed.
C8_RejectionShapedLikeGatewayFailure ==
  \A i, j \in Invocations :
    ((PolicyDenied(i) \/ RateLimited(i)) /\ GatewayFailed(j)) =>
      /\ results[i][1].kind = "error"
      /\ results[j][1].kind = results[i][1].kind
      /\ DOMAIN results[j][1] = DOMAIN results[i][1]

C8_Witness ==
  \E i, j \in Invocations :
    /\ op[i] = "device_delete"
    /\ PolicyDenied(i)
    /\ GatewayFailed(j)
    /\ results[j][1].kind = "error"

\* C9: when the upstream answers with a non-2xx status, the invocation
\* returns an error record whose message holds the status code and the
\* body's diagnostic text, or the status line when the body has none.
C9_UpstreamFailureCarriesStatusAndText ==
  \A i \in Invocations :
    (pc[i] = "done" /\ received[i].type = "response"
       /\ ~Is2xx(received[i].status)) =>
      /\ Len(results[i]) = 1
      /\ results[i][1].kind = "error"
      /\ StatusCode(received[i].status) \in Range(results[i][1].message)
      /\ (IF received[i].body # "" THEN received[i].body
          ELSE StatusLine(received[i].status))
           \in Range(results[i][1].message)

C9_Witness ==
  \E i \in Invocations :
    /\ op[i] = "device_get"
    /\ pc[i] = "done"
    /\ received[i].status = 404
    /\ results[i][1].kind = "error"
    /\ "not found" \in Range(results[i][1].message)

\* C10: the endpoint of a tool holds the caller's identifier as one
\* percent-encoded segment: the number of segments is that of the template,
\* and decoding the identifier's segment gives the identifier back.
C10_IdentifierIsOneEncodedSegment ==
  path # <<>> =>
    /\ Len(Segments(path)) = IdentSegment(pathTool)
    /\ unquote(Segments(path)[IdentSegment(pathTool)]) = ident

\* C11: with rate limiting disabled no invocation is ever denied for rate
\* reasons: the limiter is not installed, no invocation enters it, it takes
\* no decision, and no invocation ends with the rate-limit record, however
\* many calls arrive at the same instant.
C11_NoRateDenialWhenDisabled ==
  ~LNMS_CONFIG.rate_limit_enabled =>
    /\ LimiterName \notin Range(middleware)
    /\ log = <<>>
    /\ \A i \in Invocations :
         /\ ~RateLimited(i)
         /\ "limiter" \notin Range(trace[i])

C11_Witness ==
  /\ ~LNMS_CONFIG.rate_limit_enabled
  /\ now = 0
  /\ calls = env.budget
  /\ calls >= 2
  /\ \A i \in Invocations :
       /\ pc[i] = "done"
       /\ op[i] = "device_get"
       /\ results[i] = <<Payload(<<"json">>)>>

\* C12: every invocation issues at most one HTTP request to the upstream; a
\* request that failed (error status, transport failure, timeout) is never
\* sent again: the invocation ends with the failure of its single request.
C12_AtMostOneRequestNoRetry ==
  \A i \in Invocations :
    /\ httpCalls[i] <= 1
    /\ Cardinality({k \in DOMAIN trace[i] : trace[i][k] = "gateway"}) <= 1
    /\ received[i] # NoResponse => pc[i] = "done"
    /\ GatewayFailed(i) => httpCalls[i] = 1 /\ Len(results[i]) = 1

C12_Witness ==
  \E i \in Invocations :
    /\ GatewayFailed(i)
    /\ received[i].type = "timeout"
    /\ httpCalls[i] = 1
    /\ results[i][1].kind = "error"

\* C13: an invocation holds an open upstream connection only while it is
\* inside its gateway call; the connection is released on every way out
\* (success, upstream error, transport failure, timeout, cancellation), so
\* once every invocation has finished no connection is open.
C13_ConnectionOnlyInsideGatewayCall ==
  /\ \A i \in Invocations : connOpen[i] => pc[i] = "sent"
  /\ (\A i \in Invocations : pc[i] \in {"idle", "done", "cancelled"})
       => \A i \in Invocations : ~connOpen[i]

C13_Witness ==
  \E i, j \in Invocations :
    /\ pc[i] = "cancelled"
    /\ httpCalls[i] = 1
    /\ ~connOpen[i]
    /\ GatewayFailed(j)
    /\ received[j].type = "transport"
    /\ ~connOpen[j]

\* C14: the server accepts no invocation when the base URL or the token is
\* empty: main() checks both before mcp.run() and exits with status 1, so
\* the process runs only with both set and no call is ever received without.
C14_NoServiceWithoutUrlAndToken ==
  /\ phase = "running"
       => LNMS_CONFIG.librenms_url # "" /\ LNMS_CONFIG.token # ""
  /\ (LNMS_CONFIG.librenms_url = "" \/ LNMS_CONFIG.token = "") =>
       /\ phase \in {"imported", "exit1"}
       /\ calls = 0
       /\ \A i \in Invocations : pc[i] = "idle" /\ httpCalls[i] = 0

C14_Witness ==
  /\ phase = "exit1"
  /\ LNMS_CONFIG.librenms_url # ""
  /\ LNMS_CONFIG.token = ""
  /\ calls = 0

\* C15: the read-only gate denies an invocation exactly when its tool is
\* mutating (readOnlyHint = false) and read_only_mode is on; the decision
\* does not depend on the destructive or idempotent hints, the tags or the
\* parameters: two gated tools that agree on mutating get the same decision,
\* so non-destructive alert_acknowledge is denied like device_delete.
C15_GateDeniesExactlyMutatingInReadOnlyMode ==
  /\ \A i \in Invocations :
       /\ results[i] = <<ErrorRecord(AccessDenied)>>
            => ~ReadOnlyHint(op[i]) /\ LNMS_CONFIG.read_only_mode
       /\ "gate" \in Range(trace[i]) =>
            (results[i] = <<ErrorRecord(AccessDenied)>>
               <=> ~ReadOnlyHint(op[i]) /\ LNMS_CONFIG.read_only_mode)
  /\ \A i, j \in Invocations :
       ("gate" \in Range(trace[i]) /\ "gate" \in Range(trace[j])
          /\ ReadOnlyHint(op[i]) = ReadOnlyHint(op[j]))
         => (results[i] = <<ErrorRecord(AccessDenied)>>
               <=> results[j] = <<ErrorRecord(AccessDenied)>>)

C15_Witness ==
  \E i, j \in Invocations :
    /\ op[i] = "alert_acknowledge"
    /\ ~DestructiveHint(op[i])
    /\ PolicyDenied(i)
    /\ op[j] = "device_delete"
    /\ DestructiveHint(op[j])
    /\ PolicyDenied(j)

\* C16: whenever rate limiting is enabled, the limiter that decides on
\* invocations runs with a ceiling of at least one request and a window of
\* at least one minute: no smaller configured value reaches it.
C16_EnabledLimiterHasPositiveParameters ==
  (LNMS_CONFIG.rate_limit_enabled /\ log # <<>>) =>
    /\ limiter.max_requests >= 1
    /\ limiter.window_seconds >= SecondsPerMinute

\* C17: with both policies on, an invocation the read-only gate denies
\* consumes no rate-limit slot: it never enters the limiter, so the limiter
\* has decided on (and holds timestamps for) at most the calls that are not
\* gate-denied.
C17_GateDenialConsumesNoSlot ==
  BothPolicies =>
    /\ \A i \in Invocations :
         PolicyDenied(i) => trace[i] = <<"gate">>
    /\ Len(log) + Cardinality({i \in Invocations : PolicyDenied(i)}) <= calls
    /\ Len(limiter.requests) <= Len(log)

C17_Witness ==
  /\ BothPolicies
  /\ calls = 2
  /\ \E i, j \in Invocations :
       /\ op[i] = "device_delete"
       /\ PolicyDenied(i)
       /\ op[j] = "device_get"
       /\ trace[j] = <<"gate", "limiter">>
  /\ Len(log) = 1
  /\ Len(limiter.requests) = 1

\* The allowed decisions among the first k that fall in the interval of one
\* configured window length ending at the k-th decision.
AllowedInWindowEndingAt(k) ==
  {j \in 1..k :
     /\ log[j].allowed
     /\ log[k].time - log[j].time
          <= LNMS_CONFIG.rate_limit_window_minutes * SecondsPerMinute}

\* C18: the number of allowed acquisitions in any interval of one window
\* length never exceeds rate_limit_max_requests, and the limiter's window
\* state never holds more than that many timestamps.
C18_WindowNeverExceedsCeiling ==
  LNMS_CONFIG.rate_limit_enabled =>
    /\ \A k \in DOMAIN log :
         Cardinality(AllowedInWindowEndingAt(k))
           <= LNMS_CONFIG.rate_limit_max_requests
    /\ Len(limiter.requests) <= LNMS_CONFIG.rate_limit_max_requests

C18_Witness ==
  /\ LNMS_CONFIG.rate_limit_enabled
  /\ LNMS_CONFIG.rate_limit_max_requests = 2
  /\ Len(log) = 5
  /\ Len(limiter.requests) = 2
  /\ ~log[3].allowed
  /\ Cardinality(AllowedInWindowEndingAt(3)) = 2
  /\ log[4].allowed /\ log[5].allowed
  /\ Cardinality(AllowedInWindowEndingAt(5)) = 2

\* C19: an attempt records a timestamp only when it is allowed: a denied
\* attempt leaves the recorded timestamps as they were apart from the
\* eviction of expired ones, an allowed one adds exactly its own time, and a
\* step without a decision (a cancellation before the decision included)
\* leaves the limiter untouched.
C19_TimestampRecordedOnlyOnAllow ==
  [][LET kept == Evict(limiter.requests, now - limiter.window_seconds)
         decided == Len(log') = Len(log) + 1
     IN /\ (decided /\ ~log'[Len(log')].allowed)
             => limiter'.requests = kept
        /\ (decided /\ log'[Len(log')].allowed)
             => limiter'.requests = Append(kept, now)
        /\ ~decided => limiter' = limiter]_vars

C19_Witness ==
  \E i, j \in Invocations :
    /\ RateLimited(i)
    /\ pc[j] = "cancelled"
    /\ "limiter" \notin Range(trace[j])
    /\ mwIndex[j] <= Len(middleware)
    /\ middleware[mwIndex[j]] = LimiterName
    /\ Len(log) = 2
    /\ log[1].allowed
    /\ ~log[2].allowed
    /\ limiter.requests = <<log[1].time>>

\* C20: in read-only mode every HTTP request that reaches the upstream uses
\* GET: every tool of the catalog declared readOnlyHint = true calls only
\* client.get, and every tool that calls post, put, patch or delete is
\* declared mutating, so the gate lets no other method through.
C20_ReadOnlyModeSendsOnlyGet ==
  /\ LNMS_CONFIG.read_only_mode =>
       \A i \in Invocations : httpCalls[i] > 0 => method[i] = "GET"
  /\ \A e \in Catalog :
       /\ e.readOnlyHint => e.verb = "GET"
       /\ e.verb \in {"POST", "PUT", "PATCH", "DELETE"} => ~e.readOnlyHint

C20_Witness ==
  /\ LNMS_CONFIG.read_only_mode
  /\ \E i \in Invocations :
       /\ op[i] = "alerts_get"
       /\ "gate" \in Range(trace[i])
       /\ pc[i] = "done"
       /\ httpCalls[i] = 1
       /\ method[i] = "GET"

\* C21: in the catalog a tool carries the tag "read-only" exactly when its
\* readOnlyHint is true, so the gate deciding by the tag and the gate
\* deciding by descriptor.mutating give every invocation the same decision:
\* what the one denies the other denies.
C21_TagGateAndHintGateAgree ==
  /\ \A e \in Catalog : ("read-only" \in e.tags) <=> e.readOnlyHint
  /\ \A i \in Invocations :
       pc[i] # "idle" =>
         /\ TagGateCheck(Descriptor(op[i]), LNMS_CONFIG)
              = GateCheck(Descriptor(op[i]), LNMS_CONFIG)
         /\ PolicyDenied(i)
              => TagGateCheck(Descriptor(op[i]), LNMS_CONFIG) = "Deny"
         /\ "gate" \in Range(trace[i]) =>
              (PolicyDenied(i)
                 <=> TagGateCheck(Descriptor(op[i]), LNMS_CONFIG) = "Deny")

C21_Witness ==
  /\ LNMS_CONFIG.read_only_mode
  /\ \E i \in Invocations :
       /\ op[i] = "device_discover"
       /\ "admin" \notin Tags(op[i])
       /\ "read-only" \notin Tags(op[i])
       /\ ~ReadOnlyHint(op[i])
       /\ PolicyDenied(i)

\* The allowed decisions before the k-th whose timestamp is at most one
\* window length old at the k-th decision.
CountedAt(k) ==
  {j \in 1..(k - 1) :
     /\ log[j].allowed
     /\ log[k].time - log[j].time <= limiter.window_seconds}

\* C22: at each attempt exactly the timestamps older than now minus the
\* window are evicted before the count is compared with the ceiling: the
\* attempt is allowed exactly when fewer than the ceiling of the earlier
\* acquisitions are at most one window old, so a timestamp exactly one
\* window old still counts and an older one never does; after the attempt
\* the limiter holds exactly the timestamps counted, plus its own if allowed.
C22_EvictsExactlyOlderThanWindow ==
  LNMS_CONFIG.rate_limit_enabled =>
    /\ \A k \in DOMAIN log :
         log[k].allowed
           <=> Cardinality(CountedAt(k)) < limiter.max_requests
    /\ log # <<>> =>
         Len(limiter.requests)
           = Cardinality(CountedAt(Len(log)))
               + (IF log[Len(log)].allowed THEN 1 ELSE 0)

C22_Witness ==
  /\ LNMS_CONFIG.rate_limit_enabled
  /\ limiter.max_requests = 1
  /\ Len(log) = 3
  /\ log[1].allowed
  /\ log[2].time - log[1].time = limiter.window_seconds
  /\ ~log[2].allowed
  /\ log[3].time - log[1].time > limiter.window_seconds
  /\ log[3].allowed
  /\ limiter.requests = <<log[3].time>>

\* What belongs to one invocation.
Slot(i) ==
  <<pc[i], op[i], mwIndex[i], trace[i], httpCalls[i], method[i],
    connOpen[i], received[i], results[i]>>

\* C24: concurrent invocations share no mutable state other than the
\* limiter's window: no step changes what belongs to two invocations, and
\* the result of an invocation that reached the gateway is given by the
\* upstream's answer to its own request alone, however the other
\* invocations in flight interleave with it.
C24_InvocationsShareOnlyTheWindow ==
  [][/\ \A i, j \in Invocations :
          (i # j /\ Slot(i)' # Slot(i)) => Slot(j)' = Slot(j)
     /\ \A i \in Invocations :
          (pc'[i] = "done" /\ "gateway" \in Range(trace'[i])) =>
            results'[i] = <<ToolReturn(ClientRequest(received'[i]))>>]_vars

C24_Witness ==
  \E i, j \in Invocations :
    /\ i # j
    /\ op[i] = op[j]
    /\ pc[i] = "done" /\ "gateway" \in Range(trace[i])
    /\ pc[j] = "done" /\ "gateway" \in Range(trace[j])
    /\ received[i].status = 200 /\ received[i].body = "json"
    /\ received[j].type = "timeout"
    /\ results[i] = <<Payload(<<"json">>)>>
    /\ results[j] = <<ErrorRecord(<<"Timeout">>)>>

\* C25: a 2xx response whose body is empty or cannot be decoded gives a
\* success result with an empty payload: the invocation ends with exactly
\* that one result, never an error record, never a raised exception.
C25_EmptyOrUndecodable2xxIsSuccess ==
  \A i \in Invocations :
    (pc[i] = "done" /\ received[i].type = "response"
       /\ Is2xx(received[i].status) /\ ~Decodable(received[i].body)) =>
      /\ results[i] = <<Payload(NoMessage)>>
      /\ results[i][1].kind \notin {"error", "raised"}

C25_Witness ==
  \E i, j \in Invocations :
    /\ pc[i] = "done" /\ pc[j] = "done"
    /\ received[i] = [type |-> "response", status |-> 200, body |-> ""]
    /\ received[j] = [type |-> "response", status |-> 200, body |-> "<html>"]
    /\ results[i] = <<Payload(NoMessage)>>
    /\ results[j] = <<Payload(NoMessage)>>

\* The name the API gives a filter in the query string.
QueryKey(p) ==
  IF p = "from_ts" THEN "from"
  ELSE IF p = "to_ts" THEN "to"
  ELSE IF p = "service_type" THEN "type"
  ELSE p

PayloadValue(payload, key) ==
  LET k == CHOOSE n \in DOMAIN payload : payload[n][1] = key
  IN payload[k][2]

\* C27: device_update sends the body {field, data} built from the caller's
\* payload: with exactly one key, field is that key and data its value,
\* both scalars; otherwise field and data are two lists of equal length,
\* data[k] being the payload's value for field[k] and field holding every
\* key once; an empty payload gives two empty lists.
C27_UpdateBodyFromPayload ==
  sent.kind = "patch" =>
    /\ DOMAIN sent.data = {"field", "data"}
    /\ IF Len(callArgs) = 1
       THEN /\ sent.data.field = callArgs[1][1]
            /\ sent.data.data = callArgs[1][2]
       ELSE /\ Len(sent.data.field) = Len(sent.data.data)
            /\ Len(sent.data.field) = Len(callArgs)
            /\ {sent.data.field[k] : k \in DOMAIN sent.data.field}
                 = {callArgs[k][1] : k \in DOMAIN callArgs}
            /\ \A k \in DOMAIN sent.data.field :
                 sent.data.data[k] = PayloadValue(callArgs, sent.data.field[k])
            /\ callArgs = <<>> =>
                 sent.data.field = <<>> /\ sent.data.data = <<>>

C27_Witness ==
  /\ pathTool = "device_update"
  /\ sent.kind = "patch"
  /\ callArgs = <<<<"notes", "a">>, <<"ignore", "0">>>>
  /\ sent.data = [field |-> <<"notes", "ignore">>, data |-> <<"a", "0">>]

\* C28: every invocation eventually reaches a terminal state: it is done
\* with its result, or cancelled by the caller. Neither the gate nor the
\* limiter blocks, and the gateway call ends with a response, a transport
\* failure or a timeout.
C28_EveryInvocationTerminates ==
  \A i \in Invocations :
    (pc[i] \in {"chain", "tool", "sent"}) ~> (pc[i] \in {"done", "cancelled"})

C28_Witness ==
  \E i, j \in Invocations :
    /\ pc[i] = "done"
    /\ received[i].type = "timeout"
    /\ results[i] = <<ErrorRecord(<<"Timeout">>)>>
    /\ pc[j] = "done"
    /\ trace[j] = <<"limiter">>
    /\ RateLimited(j)

\* C29: no invocation and no policy check changes the configuration: the
\* base URL, the token, the read-only flag, the rate-limit settings, the
\* limiter's ceiling and window and the installed middlewares keep their
\* startup values in every step, the limiter's being those configured.
C29_ConfigurationNeverChanges ==
  [][/\ LNMS_CONFIG' = LNMS_CONFIG
     /\ middleware' = middleware
     /\ limiter'.max_requests = limiter.max_requests
     /\ limiter'.window_seconds = limiter.window_seconds
     /\ limiter'.max_requests = LNMS_CONFIG'.rate_limit_max_requests
     /\ limiter'.window_seconds
          = LNMS_CONFIG'.rate_limit_window_minutes * SecondsPerMinute
     /\ (GateName \in Range(middleware')) <=> LNMS_CONFIG'.read_only_mode
     /\ (LimiterName \in Range(middleware'))
          <=> LNMS_CONFIG'.rate_limit_enabled]_vars

C29_Witness ==
  /\ BothPolicies
  /\ phase = "running"
  /\ calls = env.budget
  /\ now > 0
  /\ \E i, j \in Invocations :
       /\ PolicyDenied(i)
       /\ pc[j] = "done"
       /\ results[j] = <<Payload(<<"json">>)>>
  /\ middleware = <<GateName, LimiterName>>
  /\ limiter.max_requests = LNMS_CONFIG.rate_limit_max_requests
  /\ Len(limiter.requests) = 1

\* How many times a notification or step occurs in what a tool body did.
Occurrences(t, e) == Cardinality({k \in DOMAIN t : t[k] = e})

\* C30: in every operation the progress notification (ctx.info) is sent
\* before the gateway client is opened; when the gateway call raises e,
\* exactly one error notification (ctx.error) is sent and then
\* {"error": str(e)} is returned; when the call succeeds no error
\* notification is sent.
C30_InfoBeforeClientAndOneErrorOnFailure ==
  \A i \in Invocations :
    /\ "open" \in Range(events[i]) =>
         /\ Before(events[i], "info", "open")
         /\ Occurrences(events[i], "info") = 1
         /\ events[i][1] = "info"
    /\ (pc[i] = "done" /\ "open" \in Range(events[i])) =>
         LET outcome == ClientRequest(received[i])
         IN IF outcome.raised
            THEN /\ Occurrences(events[i], "error") = 1
                 /\ Before(events[i], "error", "return")
                 /\ results[i] = <<ErrorRecord(str(outcome.value))>>
            ELSE /\ Occurrences(events[i], "error") = 0
                 /\ results[i] = <<Payload(outcome.value)>>
    /\ "open" \notin Range(events[i]) => "error" \notin Range(events[i])

C30_Witness ==
  \E i, j \in Invocations :
    /\ pc[i] = "done" /\ pc[j] = "done"
    /\ ClientRequest(received[i]).raised
    /\ events[i] = <<"info", "open", "close", "error", "return">>
    /\ results[i][1].kind = "error"
    /\ ~ClientRequest(received[j]).raised
    /\ events[j] = <<"info", "open", "close", "return">>
    /\ results[j][1].kind = "payload"

====
